---- MODULE Spec2Model ----
(***************************************************************************)
(* Model of notebooks/003-fMRI_preprocessing.ipynb: the montage helper,    *)
(* the dimension check and truncation policy, the mean-displacement        *)
(* summary of the estimated motion, and the cross-subject aggregation of   *)
(* the persisted displacement table.                                       *)
(*                                                                         *)
(* Numbers.  Affines have integer entries.  A displacement the notebook    *)
(* stores is sqrt(q/5) for the integer q = R^2*trace(A'A) + 5*|t+A*xc|^2;  *)
(* it is represented by q itself (field sq5), with a nan flag for the      *)
(* square root of a negative number.  The persisted table holds            *)
(* fixed-point numbers in units of half a millimetre.                      *)
(* Python indices are 0-based; sequences here are 1-based.                 *)
(***************************************************************************)
EXTENDS Integers, Sequences, FiniteSets, TLC

VARIABLES
    pc,                 \* position in the cell being run
    ref_affine,         \* reference (voxel-to-world) affine of the run
    transforms,         \* realign._transforms[0], one affine per frame
    R,                  \* radius of the spherical head assumption
    xc,                 \* assumed centre of the volume (3x1)
    num_timepoints,     \* common number of frames
    index,              \* frames already summarised by the loop
    mean_displacement,  \* per-frame displacement of one subject
    all_subs,           \* per subject, the shape of its bold image
    sub_index,          \* subjects already visited by the loop
    dims_all,           \* num_subjects x 4 table of image shapes
    rms_all,            \* num_subjects x num_timepoints table
    mean_displacement_all, \* subjects x time displacement table
    saved_all,          \* the table handed to np.savetxt
    csv,                \* text of mean_displacement_all.csv
    md_diff,            \* first difference of the table
    md_diff_rms,        \* per-subject summary
    bad_sub_inds,       \* flagged subject indices
    vol,                \* montage: the 3-D volume
    num_cols,           \* montage: tiles per row
    rows,               \* montage: row chunks
    im,                 \* montage: the resulting image
    s1_bold_arr,        \* 4-D data array of one run
    temporal_mean,      \* mean of the run across time
    squared_difference, \* squared deviation from the temporal mean
    rms,                \* per-frame RMS error of the run
    rms_loop,           \* the rms the loop cell produced, before rms is rebound
    bold_rms,           \* per subject, the per-frame RMS error of its run
    mean_rms_all,       \* per-subject mean of rms_all
    worst_subject,      \* index of the subject with the largest mean RMS
    realign_all         \* realign objects kept by the all-subjects loop

vars == <<pc, ref_affine, transforms, R, xc, num_timepoints, index,
          mean_displacement, all_subs, sub_index, dims_all, rms_all,
          mean_displacement_all, saved_all, csv, md_diff, md_diff_rms, bad_sub_inds,
          vol, num_cols, rows, im,
          s1_bold_arr, temporal_mean, squared_difference, rms, rms_loop,
          bold_rms, mean_rms_all, worst_subject, realign_all>>

dispVars == <<ref_affine, transforms, R, xc, index, mean_displacement>>
dimsVars == <<all_subs, sub_index, dims_all, rms_all>>
aggVars == <<mean_displacement_all, saved_all, csv, md_diff, md_diff_rms, bad_sub_inds>>
montageVars == <<vol, num_cols, rows, im>>
rmsVars == <<s1_bold_arr, temporal_mean, squared_difference, rms, rms_loop>>
subjVars == <<bold_rms, mean_rms_all, worst_subject, realign_all>>

Idle == "idle"

\* the variables of the cells a run does not reach keep a fixed value
DimsIdle == all_subs = Idle /\ sub_index = Idle /\ dims_all = Idle /\ rms_all = Idle
AggIdle ==
    /\ mean_displacement_all = Idle /\ saved_all = Idle /\ csv = Idle
    /\ md_diff = Idle /\ md_diff_rms = Idle /\ bad_sub_inds = Idle
MontageIdle == vol = Idle /\ num_cols = Idle /\ rows = Idle /\ im = Idle
DispIdle ==
    /\ ref_affine = Idle /\ transforms = Idle /\ R = Idle /\ xc = Idle
    /\ index = Idle /\ mean_displacement = Idle
RmsIdle ==
    /\ s1_bold_arr = Idle /\ temporal_mean = Idle /\ squared_difference = Idle
    /\ rms = Idle /\ rms_loop = Idle
SubjIdle ==
    /\ bold_rms = Idle /\ mean_rms_all = Idle /\ worst_subject = Idle
    /\ realign_all = Idle

(***************************************************************************)
(* numpy helpers                                                           *)
(***************************************************************************)
RECURSIVE SumSeq(_)
SumSeq(s) == IF s = <<>> THEN 0 ELSE Head(s) + SumSeq(Tail(s))

RECURSIVE MinSeq(_)
MinSeq(s) ==
    IF Len(s) = 1 THEN s[1]
    ELSE LET m == MinSeq(Tail(s)) IN IF s[1] <= m THEN s[1] ELSE m

Zeros(n) == [i \in 1..n |-> 0]

Zeros2(m, n) == [i \in 1..m |-> Zeros(n)]

\* np.matrix product
MatMul(a, b) ==
    [i \in 1..Len(a) |->
        [j \in 1..Len(b[1]) |->
            SumSeq([k \in 1..Len(b) |-> a[i][k] * b[k][j]])]]

MatAdd(a, b) == [i \in 1..Len(a) |-> [j \in 1..Len(a[1]) |-> a[i][j] + b[i][j]]]

MatSub(a, b) == [i \in 1..Len(a) |-> [j \in 1..Len(a[1]) |-> a[i][j] - b[i][j]]]

\* .T
Transpose(a) == [j \in 1..Len(a[1]) |-> [i \in 1..Len(a) |-> a[i][j]]]

\* np.trace
Trace(a) == SumSeq([i \in 1..Len(a) |-> a[i][i]])

\* m[r0:r1, c0:c1] with Python's 0-based half-open bounds
Slice(m, r0, r1, c0, c1) ==
    [i \in 1..(r1 - r0) |-> [j \in 1..(c1 - c0) |-> m[r0 + i][c0 + j]]]

\* np.matrix((x,y,z)).T
ColVec(v) == [i \in 1..Len(v) |-> <<v[i]>>]

\* np.sqrt of the number q/5, the result represented by q
np_sqrt(q) ==
    IF q < 0 THEN [nan |-> TRUE, sq5 |-> 0] ELSE [nan |-> FALSE, sq5 |-> q]

ZeroVal == [nan |-> FALSE, sq5 |-> 0]

(***************************************************************************)
(* The affines the runs are drawn from                                     *)
(***************************************************************************)
MaxShift == 1
MaxTimepoints == 2
DefaultR == 70

Affine(L, p) ==
    << <<L[1][1], L[1][2], L[1][3], p[1]>>,
       <<L[2][1], L[2][2], L[2][3], p[2]>>,
       <<L[3][1], L[3][2], L[3][3], p[3]>>,
       <<0, 0, 0, 1>> >>

Eye3 == << <<1, 0, 0>>, <<0, 1, 0>>, <<0, 0, 1>> >>
Identity4 == Affine(Eye3, <<0, 0, 0>>)

\* 3 mm isotropic voxels, origin shifted
Scale3Ref == Affine(<< <<3, 0, 0>>, <<0, 3, 0>>, <<0, 0, 3>> >>, <<-2, 1, 0>>)
\* anisotropic voxels with the in-plane axes swapped
ObliqueRef == Affine(<< <<0, -2, 0>>, <<2, 0, 0>>, <<0, 0, 3>> >>, <<1, 0, -1>>)

RefAffines == {Identity4, Scale3Ref, ObliqueRef}

Translations ==
    {Affine(Eye3, <<a, 0, 0>>) : a \in 0..MaxShift}
        \cup {Affine(Eye3, <<1, 1, 0>>), Affine(Eye3, <<0, -1, 2>>)}

RotZ90 == << <<0, -1, 0>>, <<1, 0, 0>>, <<0, 0, 1>> >>
RotX180 == << <<1, 0, 0>>, <<0, -1, 0>>, <<0, 0, -1>> >>
Rotations == {Affine(RotZ90, <<0, 0, 0>>), Affine(RotX180, <<0, 0, 0>>)}

\* a rotation with a translation, and a non-rigid (shear and scale) affine
Others ==
    {Affine(RotZ90, <<1, 0, -1>>),
     Affine(<< <<2, 1, 0>>, <<0, 1, 0>>, <<0, 0, 1>> >>, <<0, 1, 0>>)}

Transforms == Translations \cup Rotations \cup Others \cup RefAffines

Radii == {1, DefaultR}
Centres == {<<0, 0, 0>>, <<1, 0, -1>>}

(***************************************************************************)
(* Displacement Summarizer (single-subject cell)                           *)
(***************************************************************************)
\* T_error = ref_affine - ref_affine * t.as_affine()
T_error_NoCompose(ref, T) == MatSub(ref, T)

T_error(ref, T) == MatSub(ref, MatMul(ref, T))

\* the quantity under the square root, times 5
Radicand5_NoTranspose(A, t, r, c) ==
    r * r * Trace(MatMul(A, A))
        + 5 * MatMul(Transpose(MatAdd(t, MatMul(A, c))), MatAdd(t, MatMul(A, c)))[1][1]

Radicand5_Minus(A, t, r, c) ==
    5 * MatMul(Transpose(MatAdd(t, MatMul(A, c))), MatAdd(t, MatMul(A, c)))[1][1]
        - r * r * Trace(MatMul(Transpose(A), A))

Radicand5(A, t, r, c) ==
    r * r * Trace(MatMul(Transpose(A), A))
        + 5 * MatMul(Transpose(MatAdd(t, MatMul(A, c))), MatAdd(t, MatMul(A, c)))[1][1]

\* one pass of the loop body for transform T
Displacement(ref, T, r, c) ==
    LET E == T_error(ref, T)
        A == Slice(E, 0, 3, 0, 3)
        t == Slice(E, 0, 3, 3, 4)
    IN  np_sqrt(Radicand5(A, t, r, ColVec(c)))

InitDisplacement ==
    /\ pc = "disp_start"
    /\ ref_affine \in RefAffines
    /\ R \in Radii
    /\ xc \in Centres
    /\ \E n \in 1..MaxTimepoints :
          /\ transforms \in [1..n -> Transforms]
          \* the run has num_timepoints frames, or one extra frame at the end
          /\ num_timepoints \in {m \in {n - 1, n} : m >= 1}
    /\ index = 0
    /\ mean_displacement = <<>>
    /\ DimsIdle /\ AggIdle /\ MontageIdle
    /\ RmsIdle /\ SubjIdle

\* mean_displacement = np.zeros((num_timepoints))
DispStart ==
    /\ pc = "disp_start"
    /\ mean_displacement' = [i \in 1..num_timepoints |-> ZeroVal]
    /\ index' = 0
    /\ pc' = "disp_loop"
    /\ UNCHANGED <<ref_affine, transforms, R, xc, num_timepoints>>
    /\ UNCHANGED <<dimsVars, aggVars, montageVars>>
    /\ UNCHANGED <<rmsVars, subjVars>>

\* for index,t in enumerate(transforms[0:num_timepoints]): ...
DispStep ==
    /\ pc = "disp_loop"
    /\ index < num_timepoints
    /\ index < Len(transforms)
    /\ mean_displacement' =
          [mean_displacement EXCEPT
              ![index + 1] = Displacement(ref_affine, transforms[index + 1], R, xc)]
    /\ index' = index + 1
    /\ UNCHANGED <<pc, ref_affine, transforms, R, xc, num_timepoints>>
    /\ UNCHANGED <<dimsVars, aggVars, montageVars>>
    /\ UNCHANGED <<rmsVars, subjVars>>

DispDone ==
    /\ pc = "disp_loop"
    /\ (index >= num_timepoints \/ index >= Len(transforms))
    /\ pc' = "disp_done"
    /\ UNCHANGED <<ref_affine, transforms, R, xc, num_timepoints, index, mean_displacement>>
    /\ UNCHANGED <<dimsVars, aggVars, montageVars>>
    /\ UNCHANGED <<rmsVars, subjVars>>

NextDisplacement == DispStart \/ DispStep \/ DispDone

SpecDisplacement == InitDisplacement /\ [][NextDisplacement]_vars

(***************************************************************************)
(* Claims about the Displacement Summarizer                                *)
(***************************************************************************)
\* the frames the loop has written so far
SummarisedFrames == IF pc \in {"disp_loop", "disp_done"} THEN 1..index ELSE {}

Linear(T) == Slice(T, 0, 3, 0, 3)
Shift(T) == <<T[1][4], T[2][4], T[3][4]>>
ZeroMat(m) == \A i \in 1..Len(m) : \A j \in 1..Len(m[i]) : m[i][j] = 0
PureTranslation(T) == Linear(T) = Eye3 /\ T[4] = <<0, 0, 0, 1>>
PureRotation(T) ==
    /\ MatMul(Transpose(Linear(T)), Linear(T)) = Eye3
    /\ Shift(T) = <<0, 0, 0>>
    /\ T[4] = <<0, 0, 0, 1>>
    /\ Linear(T) # Eye3
\* squared Euclidean norm of the 3-vector L*d
NormSq(L, d) ==
    (L[1][1] * d[1] + L[1][2] * d[2] + L[1][3] * d[3]) * (L[1][1] * d[1] + L[1][2] * d[2] + L[1][3] * d[3])
  + (L[2][1] * d[1] + L[2][2] * d[2] + L[2][3] * d[3]) * (L[2][1] * d[1] + L[2][2] * d[2] + L[2][3] * d[3])
  + (L[3][1] * d[1] + L[3][2] * d[2] + L[3][3] * d[3]) * (L[3][1] * d[1] + L[3][2] * d[2] + L[3][3] * d[3])

\* C1: a frame whose transform is the 4x4 identity has an all-zero error
\* matrix and a stored displacement of exactly 0, whatever the reference
\* affine, the radius and the centre.
C1_IdentityFrameIsZero ==
    \A i \in SummarisedFrames :
        transforms[i] = Identity4 =>
            /\ ZeroMat(T_error(ref_affine, transforms[i]))
            /\ mean_displacement[i] = ZeroVal

C1_Witness ==
    /\ pc = "disp_done"
    /\ ref_affine = Scale3Ref
    /\ xc # <<0, 0, 0>>
    /\ \E i \in 1..index :
          transforms[i] = Identity4 /\ mean_displacement[i] = ZeroVal

\* C2 as stated: a frame whose transform equals the reference affine has a
\* stored displacement of exactly 0.
C2_FrameEqualToRefIsZero ==
    \A i \in SummarisedFrames :
        transforms[i] = ref_affine =>
            mean_displacement[i] = ZeroVal

\* C2 amended: a frame whose transform equals the reference affine has a
\* stored displacement of 0 exactly when the reference affine is the 4x4
\* identity; for any other reference it is positive.
C2_FrameEqualToRefZeroIffIdentity ==
    \A i \in SummarisedFrames :
        transforms[i] = ref_affine =>
            /\ ~mean_displacement[i].nan
            /\ (mean_displacement[i].sq5 = 0) <=> (ref_affine = Identity4)
            /\ mean_displacement[i].sq5 >= 0

C2_Witness ==
    /\ pc = "disp_done"
    /\ ref_affine = Scale3Ref
    /\ \E i \in 1..index :
          transforms[i] = ref_affine /\ mean_displacement[i].sq5 > 0

\* C3 as stated: for a pure translation by d with xc = 0 the stored
\* displacement is |d| (its square is d.d) and is the same for every radius.
C3_TranslationIsNormOfD ==
    \A i \in SummarisedFrames :
        (PureTranslation(transforms[i]) /\ xc = <<0, 0, 0>>) =>
            /\ mean_displacement[i] = np_sqrt(5 * NormSq(Eye3, Shift(transforms[i])))
            /\ \A r \in Radii :
                  Displacement(ref_affine, transforms[i], r, xc) = mean_displacement[i]

\* C3 amended: for a pure translation by d with xc = 0 the stored
\* displacement is |L*d|, L the 3x3 linear part of the reference affine
\* (so |d| when L is orthogonal), and is the same for every radius.
C3_TranslationIsNormOfLd ==
    \A i \in SummarisedFrames :
        (PureTranslation(transforms[i]) /\ xc = <<0, 0, 0>>) =>
            /\ mean_displacement[i] =
                  np_sqrt(5 * NormSq(Linear(ref_affine), Shift(transforms[i])))
            /\ \A r \in Radii :
                  Displacement(ref_affine, transforms[i], r, xc) = mean_displacement[i]

C3_Witness ==
    /\ pc = "disp_done"
    /\ ref_affine = Scale3Ref
    /\ xc = <<0, 0, 0>>
    /\ \E i \in 1..index :
          /\ PureTranslation(transforms[i])
          /\ Shift(transforms[i]) = <<1, 1, 0>>
          /\ mean_displacement[i].sq5 = 5 * 18

\* C4: for a pure rotation with zero translation the displacement does not
\* decrease when the radius grows, and strictly grows when the linear part
\* of the error matrix is non-zero.
C4_MonotoneInRadius ==
    \A i \in SummarisedFrames :
        PureRotation(transforms[i]) =>
            \A r \in Radii :
                LET other == Displacement(ref_affine, transforms[i], r, xc)
                    A == Slice(T_error(ref_affine, transforms[i]), 0, 3, 0, 3)
                IN  /\ ~other.nan /\ ~mean_displacement[i].nan
                    /\ r <= R => other.sq5 <= mean_displacement[i].sq5
                    /\ r >= R => other.sq5 >= mean_displacement[i].sq5
                    /\ (r < R /\ ~ZeroMat(A)) => other.sq5 < mean_displacement[i].sq5

C4_Witness ==
    /\ pc = "disp_done"
    /\ R = DefaultR
    /\ \E i \in 1..index :
          /\ PureRotation(transforms[i])
          /\ Displacement(ref_affine, transforms[i], 1, xc).sq5 < mean_displacement[i].sq5
          /\ Displacement(ref_affine, transforms[i], 1, xc).sq5 > 0

\* entry (i,j) of E = R_ref - R_ref*T, written out
ErrEntry(ref, T, i, j) ==
    ref[i][j] - (ref[i][1] * T[1][j] + ref[i][2] * T[2][j]
                    + ref[i][3] * T[3][j] + ref[i][4] * T[4][j])

\* C5: the stored value v of every frame satisfies
\* v^2 = (r^2/5)*trace(A'A) + (t + A*xc).(t + A*xc), i.e.
\* 5*v^2 = r^2 * (sum of the squares of the entries of A)
\*         + 5 * (sum over the rows i of (t_i + A_i.xc)^2).
C5_Formula ==
    \A f \in SummarisedFrames :
        LET T == transforms[f]
                E(i, j) == ErrEntry(ref_affine, T, i, j)
                u(i) == E(i, 4) + E(i, 1) * xc[1] + E(i, 2) * xc[2] + E(i, 3) * xc[3]
                frob == E(1, 1) * E(1, 1) + E(1, 2) * E(1, 2) + E(1, 3) * E(1, 3)
                      + E(2, 1) * E(2, 1) + E(2, 2) * E(2, 2) + E(2, 3) * E(2, 3)
                      + E(3, 1) * E(3, 1) + E(3, 2) * E(3, 2) + E(3, 3) * E(3, 3)
            IN  /\ ~mean_displacement[f].nan
                /\ mean_displacement[f].sq5 =
                      R * R * frob + 5 * (u(1) * u(1) + u(2) * u(2) + u(3) * u(3))
                /\ xc = <<0, 0, 0>> =>
                      mean_displacement[f].sq5 =
                          R * R * frob
                            + 5 * (E(1, 4) * E(1, 4) + E(2, 4) * E(2, 4) + E(3, 4) * E(3, 4))

C5_Witness ==
    /\ pc = "disp_done"
    /\ R = DefaultR
    /\ xc # <<0, 0, 0>>
    /\ ref_affine = ObliqueRef
    /\ \E f \in 1..index :
          /\ transforms[f] = Affine(RotZ90, <<1, 0, -1>>)
          /\ mean_displacement[f].sq5 > 0

\* C6: every stored displacement is a number (the quantity under the square
\* root is never negative) and is >= 0, also for large rotations and
\* non-rigid transforms.
C6_NonNegative ==
    \A i \in SummarisedFrames :
        /\ ~mean_displacement[i].nan
        /\ mean_displacement[i].sq5 >= 0

C6_Witness ==
    /\ pc = "disp_done"
    /\ \E i \in 1..index :
          /\ transforms[i] \in Others
          /\ ~PureRotation(transforms[i])
          /\ ~mean_displacement[i].nan
          /\ mean_displacement[i].sq5 > 0

(***************************************************************************)
(* Dimension check and truncation policy                                   *)
(***************************************************************************)
MaxSubjects == 3
MaxFrames == 3

\* nib.load(bold_fname).get_shape() of the runs a data directory may hold
\* (64 x 64 x 35 voxels, as the runs of ds107)
Shapes == {<<64, 64, 35, f>> : f \in 1..MaxFrames}

num_subjects == Len(all_subs)

\* dims_all.min(axis=0)
MinAxis0(d) == [c \in 1..Len(d[1]) |-> MinSeq([s \in 1..Len(d) |-> d[s][c]])]

\* int(dims_all.min(axis=0)[3])
CommonTimepoints_FirstSubject(d) == d[1][4]

CommonTimepoints(d) == MinAxis0(d)[4]

InitDims ==
    /\ pc = "dims_start"
    /\ \E n \in 1..MaxSubjects : all_subs \in [1..n -> Shapes]
    \* num_timepoints = s1_bold_arr.shape[3], the frame count of sub001
    /\ \E s \in 1..Len(all_subs) : num_timepoints = all_subs[s][4]
    /\ ref_affine = Scale3Ref
    /\ R = DefaultR
    /\ xc = <<0, 0, 0>>
    /\ transforms = <<>>
    /\ index = 0
    /\ mean_displacement = <<>>
    /\ sub_index = 0 /\ dims_all = <<>> /\ rms_all = <<>>
    /\ AggIdle /\ MontageIdle
    /\ RmsIdle /\ SubjIdle

\* dims_all = np.zeros((num_subjects, 4))
DimsStart ==
    /\ pc = "dims_start"
    /\ dims_all' = Zeros2(num_subjects, 4)
    /\ sub_index' = 0
    /\ pc' = "dims_loop"
    /\ UNCHANGED <<all_subs, rms_all, num_timepoints>>
    /\ UNCHANGED <<dispVars, aggVars, montageVars>>
    /\ UNCHANGED <<rmsVars, subjVars>>

\* dims_all[sub_index,:] = nib.load(bold_fname).get_shape()
DimsStep ==
    /\ pc = "dims_loop"
    /\ sub_index < num_subjects
    /\ dims_all' = [dims_all EXCEPT ![sub_index + 1] = all_subs[sub_index + 1]]
    /\ sub_index' = sub_index + 1
    /\ UNCHANGED <<pc, all_subs, rms_all, num_timepoints>>
    /\ UNCHANGED <<dispVars, aggVars, montageVars>>
    /\ UNCHANGED <<rmsVars, subjVars>>

DimsDone ==
    /\ pc = "dims_loop"
    /\ sub_index >= num_subjects
    /\ pc' = "dims_done"
    /\ UNCHANGED <<dimsVars, num_timepoints>>
    /\ UNCHANGED <<dispVars, aggVars, montageVars>>
    /\ UNCHANGED <<rmsVars, subjVars>>

\* num_timepoints = int(dims_all.min(axis=0)[3])
SetNumTimepoints ==
    /\ pc = "dims_done"
    /\ num_timepoints' = CommonTimepoints(dims_all)
    /\ pc' = "min_set"
    /\ UNCHANGED dimsVars
    /\ UNCHANGED <<dispVars, aggVars, montageVars>>
    /\ UNCHANGED <<rmsVars, subjVars>>

\* rms_all = np.zeros((num_subjects, num_timepoints))
RmsAllStart ==
    /\ pc = "min_set"
    /\ rms_all' = Zeros2(num_subjects, num_timepoints)
    /\ sub_index' = 0
    /\ pc' = "rms_loop"
    /\ UNCHANGED <<all_subs, dims_all, num_timepoints>>
    /\ UNCHANGED <<dispVars, aggVars, montageVars>>
    /\ UNCHANGED <<rmsVars, subjVars>>

\* worst_bold_img = nib.load(worst_bold_fname); realign.estimate(loops=3);
\* transforms = realign._transforms[0]: one transform per frame of the
\* chosen subject's run.  The cells in between (the RMS loop, the choice of
\* worst_subject) change neither num_timepoints nor the shapes; the subject
\* and the estimated motion are inputs here.
Estimate ==
    /\ pc = "rms_loop"
    /\ \E w \in 1..num_subjects : \E T \in Translations \cup Rotations :
          transforms' = [i \in 1..all_subs[w][4] |-> T]
    /\ pc' = "disp_start"
    /\ UNCHANGED <<ref_affine, R, xc, index, mean_displacement, num_timepoints>>
    /\ UNCHANGED <<dimsVars, aggVars, montageVars>>
    /\ UNCHANGED <<rmsVars, subjVars>>

NextDims ==
    \/ DimsStart \/ DimsStep \/ DimsDone \/ SetNumTimepoints \/ RmsAllStart
    \/ Estimate \/ DispStart \/ DispStep \/ DispDone

SpecDims == InitDims /\ [][NextDims]_vars

\* the smallest frame count over the runs of all subjects, stated directly
IsMinFrames(n) ==
    /\ \A s \in 1..Len(all_subs) : n <= all_subs[s][4]
    /\ \E s \in 1..Len(all_subs) : n = all_subs[s][4]

\* C8: once the cell after the dimension-check loop has run, num_timepoints
\* is the minimum frame count over all subjects, and
\* that minimum is the length of every row of rms_all and of
\* mean_displacement, whichever subject's run is being summarised.
C8_TruncationToMinimum ==
    /\ pc \in {"min_set", "rms_loop", "disp_start", "disp_loop", "disp_done"} =>
          IsMinFrames(num_timepoints)
    /\ pc \in {"rms_loop", "disp_start", "disp_loop", "disp_done"} =>
          /\ Len(rms_all) = Len(all_subs)
          /\ \A s \in 1..Len(rms_all) : IsMinFrames(Len(rms_all[s]))
    /\ pc \in {"disp_loop", "disp_done"} => IsMinFrames(Len(mean_displacement))
    /\ pc = "disp_done" => IsMinFrames(index)

C8_Witness ==
    /\ pc = "disp_done"
    /\ Len(all_subs) = 3
    /\ all_subs[1][4] = 3 /\ all_subs[2][4] = 1 /\ all_subs[3][4] = 2
    /\ Len(transforms) = 3
    /\ num_timepoints = 1
    /\ Len(mean_displacement) = 1
    /\ Len(rms_all[1]) = 1

(***************************************************************************)
(* Persisted displacement table and cross-subject aggregation              *)
(*                                                                         *)
(* An ndarray is a record of its shape and its data in row-major order.    *)
(* Table cells are in units of half a millimetre.  A root sum of squares   *)
(* sqrt(q) is represented by q (field sq).                                 *)
(***************************************************************************)
TableSubjects == 2
TableFrames == 2
\* max_disp = 2.5 (mm), in half millimetres
max_disp == 5

CellVals == {6, 10, 11}

Tables ==
    UNION {{[shape |-> <<S, n>>, data |-> d] : d \in [1..(S * n) -> CellVals]} :
            <<S, n>> \in (1..TableSubjects) \X (1..TableFrames)}

ndim(a) == Len(a.shape)

\* a[s, j] of a 2-D array (1-based)
At2(a, s, j) == a.data[(s - 1) * a.shape[2] + j]

\* '%.18e' % v: the decimal digits of the number
RECURSIVE FormatE(_)
FormatE(v) == IF v < 10 THEN <<v>> ELSE Append(FormatE(v \div 10), v % 10)

\* float(token)
RECURSIVE ParseFloat(_)
ParseFloat(tok) ==
    IF Len(tok) = 1 THEN tok[1]
    ELSE 10 * ParseFloat(SubSeq(tok, 1, Len(tok) - 1)) + tok[Len(tok)]

\* np.savetxt(fname, X): one line per row, the cells separated by blanks
SaveTxt(a) ==
    [s \in 1..a.shape[1] |-> [j \in 1..a.shape[2] |-> FormatE(At2(a, s, j))]]

\* np.squeeze
Squeeze(a) == [shape |-> SelectSeq(a.shape, LAMBDA x : x # 1), data |-> a.data]

\* np.loadtxt(fname): the rows of numbers, squeezed (ndmin=0)
LoadTxt(text) ==
    LET nr == Len(text)
        nc == Len(text[1])
    IN  Squeeze([shape |-> <<nr, nc>>,
                 data |-> [k \in 1..(nr * nc) |->
                             ParseFloat(text[((k - 1) \div nc) + 1][((k - 1) % nc) + 1])]])

\* np.diff(a): first difference along the last axis (a has >= 1 dimension)
np_diff(a) ==
    LET n == a.shape[ndim(a)]
        lead == SubSeq(a.shape, 1, ndim(a) - 1)
        nrow == Len(a.data) \div n
    IN  [shape |-> Append(lead, n - 1),
         data |-> [k \in 1..(nrow * (n - 1)) |->
                     LET s == ((k - 1) \div (n - 1)) + 1
                         j == ((k - 1) % (n - 1)) + 1
                     IN  a.data[(s - 1) * n + j + 1] - a.data[(s - 1) * n + j]]]

\* np.sqrt(np.sum(d**2, axis=1)) of a 2-D array
RootSumSquares(d) ==
    [shape |-> <<d.shape[1]>>,
     data |-> [s \in 1..d.shape[1] |->
                 [sq |-> SumSeq([j \in 1..d.shape[2] |-> At2(d, s, j) * At2(d, s, j)])]]]

\* md_diff_rms[s] >= max_disp
AtLeast_Strict(root, thr) == root.sq > thr * thr

AtLeast(root, thr) == root.sq >= thr * thr

\* np.nonzero(cond)[0]: the 0-based indices where cond holds, ascending
RECURSIVE NonZero(_, _)
NonZero(cond, k) ==
    IF k = 0 THEN <<>>
    ELSE IF cond[k] THEN Append(NonZero(cond, k - 1), k - 1)
         ELSE NonZero(cond, k - 1)

InitAggregate ==
    /\ pc = "save"
    /\ mean_displacement_all \in Tables
    /\ saved_all = <<>>
    /\ csv = <<>>
    /\ md_diff = <<>>
    /\ md_diff_rms = <<>>
    /\ bad_sub_inds = <<>>
    /\ num_timepoints = Idle
    /\ DispIdle /\ DimsIdle /\ MontageIdle
    /\ RmsIdle /\ SubjIdle

\* np.savetxt('mean_displacement_all.csv', mean_displacement_all)
Save ==
    /\ pc = "save"
    /\ saved_all' = mean_displacement_all
    /\ csv' = SaveTxt(mean_displacement_all)
    /\ pc' = "saved"
    /\ UNCHANGED <<mean_displacement_all, md_diff, md_diff_rms, bad_sub_inds>>
    /\ UNCHANGED <<num_timepoints, dispVars, dimsVars, montageVars>>
    /\ UNCHANGED <<rmsVars, subjVars>>

\* mean_displacement_all = np.loadtxt('mean_displacement_all.csv')
Load ==
    /\ pc = "saved"
    /\ mean_displacement_all' = LoadTxt(csv)
    /\ pc' = "loaded"
    /\ UNCHANGED <<saved_all, csv, md_diff, md_diff_rms, bad_sub_inds>>
    /\ UNCHANGED <<num_timepoints, dispVars, dimsVars, montageVars>>
    /\ UNCHANGED <<rmsVars, subjVars>>

\* md_diff = np.diff(mean_displacement_all); a 0-d array raises
Diff ==
    /\ pc = "loaded"
    /\ \/ /\ ndim(mean_displacement_all) >= 1
          /\ md_diff' = np_diff(mean_displacement_all)
          /\ pc' = "diffed"
       \/ /\ ndim(mean_displacement_all) = 0
          /\ pc' = "agg_error"
          /\ UNCHANGED md_diff
    /\ UNCHANGED <<mean_displacement_all, saved_all, csv, md_diff_rms, bad_sub_inds>>
    /\ UNCHANGED <<num_timepoints, dispVars, dimsVars, montageVars>>
    /\ UNCHANGED <<rmsVars, subjVars>>

\* md_diff_rms = np.sqrt(np.sum(md_diff**2, axis=1)); axis 1 of a 1-d
\* array raises
DiffRms ==
    /\ pc = "diffed"
    /\ \/ /\ ndim(md_diff) >= 2
          /\ md_diff_rms' = RootSumSquares(md_diff)
          /\ pc' = "summarised"
       \/ /\ ndim(md_diff) < 2
          /\ pc' = "agg_error"
          /\ UNCHANGED md_diff_rms
    /\ UNCHANGED <<mean_displacement_all, saved_all, csv, md_diff, bad_sub_inds>>
    /\ UNCHANGED <<num_timepoints, dispVars, dimsVars, montageVars>>
    /\ UNCHANGED <<rmsVars, subjVars>>

\* bad_sub_inds = np.nonzero(md_diff_rms >= max_disp)[0]
Flag ==
    /\ pc = "summarised"
    /\ bad_sub_inds' =
          NonZero([s \in 1..Len(md_diff_rms.data) |->
                      AtLeast(md_diff_rms.data[s], max_disp)],
                  Len(md_diff_rms.data))
    /\ pc' = "flagged"
    /\ UNCHANGED <<mean_displacement_all, saved_all, csv, md_diff, md_diff_rms>>
    /\ UNCHANGED <<num_timepoints, dispVars, dimsVars, montageVars>>
    /\ UNCHANGED <<rmsVars, subjVars>>

NextAggregate == Save \/ Load \/ Diff \/ DiffRms \/ Flag

SpecAggregate == InitAggregate /\ [][NextAggregate]_vars

\* sum over the first k differences of row s of table m of their squares
RECURSIVE DiffSquares(_, _, _)
DiffSquares(m, s, k) ==
    IF k = 0 THEN 0
    ELSE (At2(m, s, k + 1) - At2(m, s, k)) * (At2(m, s, k + 1) - At2(m, s, k))
            + DiffSquares(m, s, k - 1)

C9_RoundTrip ==
    pc \in {"loaded", "diffed", "summarised", "flagged", "agg_error"} =>
        /\ mean_displacement_all.shape = saved_all.shape
        /\ mean_displacement_all.data = saved_all.data

(***************************************************************************)
(* montage(vol)                                                            *)
(*                                                                         *)
(* A volume is its in-plane shape and its slices along axis 2; slice k is  *)
(* identified by the number k, an all-zero slice by 0.                     *)
(***************************************************************************)
MaxSlices == 36

PlaneShapes == {<<2, 2>>, <<2, 3>>, <<64, 64>>}

Volumes ==
    {[plane |-> p, slices |-> [k \in 1..n |-> k]] : p \in PlaneShapes, n \in 1..MaxSlices}

\* int(np.ceil(np.sqrt(n)))
RECURSIVE CeilSqrtFrom(_, _)
CeilSqrtFrom(n, c) == IF c * c >= n THEN c ELSE CeilSqrtFrom(n, c + 1)
CeilSqrt(n) == CeilSqrtFrom(n, 0)

\* np.array_split(vol, k, axis=2): k chunks, the first n % k one slice longer
ArraySplit(sl, k) ==
    LET n == Len(sl)
        q == n \div k
        r == n % k
        start(i) == (i - 1) * q + (IF i - 1 < r THEN i - 1 ELSE r)
        size(i) == IF i <= r THEN q + 1 ELSE q
    IN  [i \in 1..k |-> SubSeq(sl, start(i) + 1, start(i) + size(i))]

\* np.dstack((row, np.zeros(plane + (k,))))
PadZeros(row, k) == row \o [i \in 1..k |-> 0]

\* np.dsplit(row, k) is defined when k divides the depth of row
CanDSplit(row, k) == Len(row) % k = 0

\* np.dsplit(row, k): k pieces of equal depth
DSplit(row, k) ==
    LET d == Len(row) \div k
    IN  [i \in 1..k |-> SubSeq(row, (i - 1) * d + 1, i * d)]

InitMontage ==
    /\ pc = "montage"
    /\ vol \in Volumes
    /\ num_cols = 0
    /\ rows = <<>>
    /\ im = <<>>
    /\ num_timepoints = Idle
    /\ DispIdle /\ DimsIdle /\ AggIdle
    /\ RmsIdle /\ SubjIdle

\* num_cols = int(np.ceil(np.sqrt(vol.shape[2])))
MontageCols ==
    /\ pc = "montage"
    /\ num_cols' = CeilSqrt(Len(vol.slices))
    /\ pc' = "split"
    /\ UNCHANGED <<vol, rows, im>>
    /\ UNCHANGED <<num_timepoints, dispVars, dimsVars, aggVars>>
    /\ UNCHANGED <<rmsVars, subjVars>>

\* rows = np.array_split(vol, num_cols, axis=2)
MontageSplit ==
    /\ pc = "split"
    /\ rows' = ArraySplit(vol.slices, num_cols)
    /\ pc' = "pad"
    /\ UNCHANGED <<vol, num_cols, im>>
    /\ UNCHANGED <<num_timepoints, dispVars, dimsVars, aggVars>>
    /\ UNCHANGED <<rmsVars, subjVars>>

\* rows[-1] = np.dstack((rows[-1], np.zeros(... (rows[0].shape[2]-rows[-1].shape[2],))))
MontagePad ==
    /\ pc = "pad"
    /\ rows' = [rows EXCEPT
                  ![Len(rows)] = PadZeros(rows[Len(rows)], Len(rows[1]) - Len(rows[Len(rows)]))]
    /\ im' = <<>>
    /\ pc' = "tile"
    /\ UNCHANGED <<vol, num_cols>>
    /\ UNCHANGED <<num_timepoints, dispVars, dimsVars, aggVars>>
    /\ UNCHANGED <<rmsVars, subjVars>>

\* [np.squeeze(np.hstack(np.dsplit(row, num_cols))) for row in rows]:
\* the next row, or the ValueError of dsplit
MontageRow ==
    /\ pc = "tile"
    /\ Len(im) < Len(rows)
    /\ \/ /\ CanDSplit(rows[Len(im) + 1], num_cols)
          /\ im' = Append(im, DSplit(rows[Len(im) + 1], num_cols))
          /\ pc' = "tile"
       \/ /\ ~CanDSplit(rows[Len(im) + 1], num_cols)
          /\ im' = <<>>
          /\ pc' = "montage_error"
    /\ UNCHANGED <<vol, num_cols, rows>>
    /\ UNCHANGED <<num_timepoints, dispVars, dimsVars, aggVars>>
    /\ UNCHANGED <<rmsVars, subjVars>>

\* im = np.vstack([...]); return(im)
\* a row that dsplit accepted has num_cols tiles of depth 1 (a chunk holds at
\* most num_cols slices), so squeeze leaves 2-D rows of shape
\* (X, num_cols*Y) and vstack an image of shape (rows*X, num_cols*Y)
MontageStack ==
    /\ pc = "tile"
    /\ Len(im) = Len(rows)
    /\ im' = [shape |-> <<Len(im) * vol.plane[1], num_cols * vol.plane[2]>>,
              tiles |-> [i \in 1..Len(im) |-> [j \in 1..Len(im[i]) |-> im[i][j][1]]]]
    /\ pc' = "montage_done"
    /\ UNCHANGED <<vol, num_cols, rows>>
    /\ UNCHANGED <<num_timepoints, dispVars, dimsVars, aggVars>>
    /\ UNCHANGED <<rmsVars, subjVars>>

NextMontage == MontageCols \/ MontageSplit \/ MontagePad \/ MontageRow \/ MontageStack

SpecMontage == InitMontage /\ [][NextMontage]_vars

\* C10 as stated: for every slice count n >= 1 the call ends without error
\* and returns a c x c grid of tiles (c = ceil(sqrt(n))) holding the n
\* slices once each in slice order, followed by all-zero tiles.
C10_MontageDefined ==
    pc \in {"montage_done", "montage_error"} =>
        LET n == Len(vol.slices)
            c == CHOOSE k \in 1..n : k * k >= n /\ (k - 1) * (k - 1) < n
        IN  /\ pc = "montage_done"
            /\ im.shape = <<c * vol.plane[1], c * vol.plane[2]>>
            /\ Len(im.tiles) = c
            /\ \A i \in 1..c :
                  /\ Len(im.tiles[i]) = c
                  /\ \A j \in 1..c :
                        im.tiles[i][j] =
                            IF (i - 1) * c + j <= n THEN vol.slices[(i - 1) * c + j] ELSE 0

\* C11 as stated: once the padding step has run, every row chunk holds as
\* many slices as the first row chunk.
C11_RowsEqualAfterPadding ==
    pc \in {"tile", "montage_done", "montage_error"} =>
        \A i \in 1..Len(rows) : Len(rows[i]) = Len(rows[1])

(***************************************************************************)
(* RMS error over time of one run: the loop and the broadcast version      *)
(*                                                                         *)
(* A 4-D array is a sequence indexed [x][y][z][t].  Means are exact        *)
(* fractions <<n, d>> in lowest terms with d > 0; np.sqrt(f) of a fraction *)
(* f is represented by f (field sq).                                       *)
(***************************************************************************)
MaxVoxel == 1

\* x, y, z, t extents of the runs
RunShapes == {<<2, 1, 2, 2>>, <<1, 2, 1, 3>>, <<2, 2, 1, 2>>}

Runs ==
    UNION {[1..sh[1] -> [1..sh[2] -> [1..sh[3] -> [1..sh[4] -> 0..MaxVoxel]]]] :
            sh \in RunShapes}

RECURSIVE Gcd(_, _)
Gcd(a, b) == IF b = 0 THEN a ELSE Gcd(b, a % b)

Abs(a) == IF a < 0 THEN -a ELSE a

\* the fraction n/d (d > 0) in lowest terms
Frac(n, d) ==
    LET g == Gcd(Abs(n), d) IN <<n \div g, d \div g>>

FAdd(f, g) == Frac(f[1] * g[2] + g[1] * f[2], f[2] * g[2])
FSub(f, g) == Frac(f[1] * g[2] - g[1] * f[2], f[2] * g[2])
FMul(f, g) == Frac(f[1] * g[1], f[2] * g[2])
FDiv(f, k) == Frac(f[1], f[2] * k)

\* sum of a sequence of fractions
RECURSIVE FSum(_)
FSum(fs) == IF fs = <<>> THEN <<0, 1>> ELSE FAdd(Head(fs), FSum(Tail(fs)))

\* element-wise sum of two arrays of fractions with nd dimensions
RECURSIVE AddArr(_, _, _)
AddArr(a, b, nd) ==
    IF nd = 0 THEN FAdd(a, b)
    ELSE [i \in 1..Len(a) |-> AddArr(a[i], b[i], nd - 1)]

\* element-wise division of an array of fractions by an integer
RECURSIVE DivArr(_, _, _)
DivArr(a, k, nd) ==
    IF nd = 0 THEN FDiv(a, k)
    ELSE [i \in 1..Len(a) |-> DivArr(a[i], k, nd - 1)]

\* a[0] + ... + a[i-1], each an array with nd dimensions
RECURSIVE SumFirst(_, _, _)
SumFirst(a, i, nd) ==
    IF i = 1 THEN a[1] ELSE AddArr(SumFirst(a, i - 1, nd), a[i], nd)

\* a.mean(axis=0) of an array with nd dimensions
MeanAxis0_Sum(a, nd) == SumFirst(a, Len(a), nd - 1)

MeanAxis0(a, nd) == DivArr(SumFirst(a, Len(a), nd - 1), Len(a), nd - 1)

\* arr.mean(axis=3)
MeanAxis3(arr) ==
    [x \in 1..Len(arr) |-> [y \in 1..Len(arr[x]) |-> [z \in 1..Len(arr[x][y]) |->
        Frac(SumSeq(arr[x][y][z]), Len(arr[x][y][z]))]]]

\* np.mean of a 3-D array: the sum of all entries over their number
MeanAll(a) ==
    FDiv(FSum([x \in 1..Len(a) |->
                 FSum([y \in 1..Len(a[x]) |-> FSum(a[x][y])])]),
         Len(a) * Len(a[1]) * Len(a[1][1]))

\* (temporal_mean - s1_bold_arr[:,:,:,t])**2 with a 3-D temporal_mean
LoopSquaredDifference(tm, arr, t) ==
    [x \in 1..Len(arr) |-> [y \in 1..Len(arr[x]) |-> [z \in 1..Len(arr[x][y]) |->
        LET e == FSub(tm[x][y][z], <<arr[x][y][z][t], 1>>) IN FMul(e, e)]]]

\* temporal_mean.reshape(temporal_mean.shape + (1,))
Reshape1(tm) ==
    [x \in 1..Len(tm) |-> [y \in 1..Len(tm[x]) |-> [z \in 1..Len(tm[x][y]) |->
        <<tm[x][y][z]>>]]]

\* (temporal_mean - s1_bold_arr)**2 with temporal_mean of shape (X,Y,Z,1)
\* broadcast along the last axis
BroadcastSquaredDifference(tm4, arr) ==
    [x \in 1..Len(arr) |-> [y \in 1..Len(arr[x]) |-> [z \in 1..Len(arr[x][y]) |->
        [t \in 1..Len(arr[x][y][z]) |->
            LET e == FSub(tm4[x][y][z][1], <<arr[x][y][z][t], 1>>) IN FMul(e, e)]]]]

\* np.sqrt, element-wise on a 1-D array
SqrtEach(a) == [i \in 1..Len(a) |-> [sq |-> a[i]]]

InitRms ==
    /\ pc = "tmean"
    /\ s1_bold_arr \in Runs
    /\ temporal_mean = <<>>
    /\ squared_difference = <<>>
    /\ rms = <<>>
    /\ rms_loop = <<>>
    /\ num_timepoints = 0
    /\ index = 0
    /\ ref_affine = Idle /\ transforms = Idle /\ R = Idle /\ xc = Idle
    /\ mean_displacement = Idle
    /\ DimsIdle /\ AggIdle /\ MontageIdle /\ SubjIdle

\* temporal_mean = s1_bold_arr.mean(axis=3)
TemporalMean ==
    /\ pc = "tmean"
    /\ temporal_mean' = MeanAxis3(s1_bold_arr)
    /\ pc' = "rms_start"
    /\ UNCHANGED <<s1_bold_arr, squared_difference, rms, rms_loop, num_timepoints>>
    /\ UNCHANGED <<dispVars, dimsVars, aggVars, montageVars, subjVars>>

\* num_timepoints = s1_bold_arr.shape[3]; rms = np.zeros(num_timepoints)
RmsLoopStart ==
    /\ pc = "rms_start"
    /\ num_timepoints' = Len(s1_bold_arr[1][1][1])
    /\ rms' = [i \in 1..Len(s1_bold_arr[1][1][1]) |-> [sq |-> <<0, 1>>]]
    /\ index' = 0
    /\ pc' = "rms_t_loop"
    /\ UNCHANGED <<s1_bold_arr, temporal_mean, squared_difference, rms_loop>>
    /\ UNCHANGED <<ref_affine, transforms, R, xc, mean_displacement>>
    /\ UNCHANGED <<dimsVars, aggVars, montageVars, subjVars>>

\* for t in range(num_timepoints): squared_difference = ...; rms[t] = ...
RmsLoopStep ==
    /\ pc = "rms_t_loop"
    /\ index < num_timepoints
    /\ squared_difference' = LoopSquaredDifference(temporal_mean, s1_bold_arr, index + 1)
    /\ rms' = [rms EXCEPT ![index + 1] =
                  [sq |-> MeanAll(LoopSquaredDifference(temporal_mean, s1_bold_arr, index + 1))]]
    /\ index' = index + 1
    /\ UNCHANGED <<pc, s1_bold_arr, temporal_mean, rms_loop, num_timepoints>>
    /\ UNCHANGED <<ref_affine, transforms, R, xc, mean_displacement>>
    /\ UNCHANGED <<dimsVars, aggVars, montageVars, subjVars>>

RmsLoopDone ==
    /\ pc = "rms_t_loop"
    /\ index >= num_timepoints
    /\ pc' = "rms_t_done"
    /\ UNCHANGED <<rmsVars, num_timepoints>>
    /\ UNCHANGED <<dispVars, dimsVars, aggVars, montageVars, subjVars>>

\* temporal_mean = s1_bold_arr.mean(axis=3)
\* temporal_mean = temporal_mean.reshape(temporal_mean.shape + (1,))
ReshapeMean ==
    /\ pc = "rms_t_done"
    /\ temporal_mean' = Reshape1(MeanAxis3(s1_bold_arr))
    /\ pc' = "reshaped"
    /\ UNCHANGED <<s1_bold_arr, squared_difference, rms, rms_loop, num_timepoints>>
    /\ UNCHANGED <<dispVars, dimsVars, aggVars, montageVars, subjVars>>

\* squared_difference = (temporal_mean - s1_bold_arr)**2
\* rms = np.sqrt(squared_difference.mean(axis=0).mean(axis=0).mean(axis=0))
BroadcastRms ==
    /\ pc = "reshaped"
    /\ squared_difference' = BroadcastSquaredDifference(temporal_mean, s1_bold_arr)
    /\ rms' = SqrtEach(MeanAxis0(MeanAxis0(MeanAxis0(
                 BroadcastSquaredDifference(temporal_mean, s1_bold_arr), 4), 3), 2))
    /\ rms_loop' = rms
    /\ pc' = "broadcast_done"
    /\ UNCHANGED <<s1_bold_arr, temporal_mean, num_timepoints>>
    /\ UNCHANGED <<dispVars, dimsVars, aggVars, montageVars, subjVars>>

NextRms ==
    TemporalMean \/ RmsLoopStart \/ RmsLoopStep \/ RmsLoopDone \/ ReshapeMean
        \/ BroadcastRms

SpecRms == InitRms /\ [][NextRms]_vars

\* C12: once both cells have run, the broadcast version holds one value per
\* frame and, for every frame, the value the loop computed for that frame.
C12_LoopEqualsBroadcast ==
    pc = "broadcast_done" =>
        /\ Len(rms) = Len(s1_bold_arr[1][1][1])
        /\ Len(rms_loop) = Len(rms)
        /\ \A t \in 1..Len(rms) : rms[t] = rms_loop[t]

C12_Witness ==
    /\ pc = "broadcast_done"
    /\ Len(rms) = 3
    /\ rms = rms_loop
    /\ rms[1].sq[1] > 0
    /\ rms[1] # rms[2]
    /\ rms[2] # rms[3]

(***************************************************************************)
(* All subjects: the RMS loop, the worst subject, the motion-correction    *)
(* loop                                                                    *)
(*                                                                         *)
(* bold_rms[s] is the per-frame RMS of subject s's run,                    *)
(* np.sqrt(squared_difference.mean(axis=0).mean(axis=0).mean(axis=0)),     *)
(* one value per frame of the run (see BroadcastRms).                      *)
(***************************************************************************)
RmsSubjects == 2
RmsFrames == 2

SubjectShapes == {<<64, 64, 35, f>> : f \in 1..RmsFrames}

\* the values a frame's RMS is drawn from
RmsValues == {1, 2}

\* a[n:] would keep the frames at the end
Slice0_Trailing(a, n) ==
    IF n >= Len(a) THEN a ELSE SubSeq(a, Len(a) - n + 1, Len(a))

\* a[0:n] of a 1-D array
Slice0(a, n) == IF n >= Len(a) THEN a ELSE SubSeq(a, 1, n)

InitSubjects ==
    /\ pc = "dims_start"
    /\ \E n \in 1..RmsSubjects : all_subs \in [1..n -> SubjectShapes]
    /\ bold_rms \in [1..Len(all_subs) -> UNION {[1..f -> RmsValues] : f \in 1..RmsFrames}]
    /\ \A s \in 1..Len(all_subs) : Len(bold_rms[s]) = all_subs[s][4]
    \* num_timepoints = s1_bold_arr.shape[3], left by the single-run cells
    /\ \E s \in 1..Len(all_subs) : num_timepoints = all_subs[s][4]
    /\ ref_affine = Scale3Ref
    /\ R = DefaultR
    /\ xc = <<0, 0, 0>>
    /\ transforms = <<>>
    /\ index = 0
    /\ mean_displacement = <<>>
    /\ sub_index = 0 /\ dims_all = <<>> /\ rms_all = <<>>
    /\ mean_displacement_all = <<>> /\ csv = <<>>
    /\ saved_all = Idle /\ md_diff = Idle /\ md_diff_rms = Idle /\ bad_sub_inds = Idle
    /\ mean_rms_all = <<>> /\ worst_subject = Idle /\ realign_all = <<>>
    /\ MontageIdle /\ RmsIdle

\* one pass of: for sub_index,sub_dir in enumerate(all_subs): ...
\* nib.load(...).get_data() may raise; the row assignment raises when the
\* slice does not have num_timepoints entries.
RmsStep ==
    /\ pc = "rms_loop"
    /\ sub_index < num_subjects
    /\ \/ /\ Len(Slice0(bold_rms[sub_index + 1], num_timepoints)) = num_timepoints
          /\ rms_all' = [rms_all EXCEPT
                ![sub_index + 1] = Slice0(bold_rms[sub_index + 1], num_timepoints)]
          /\ sub_index' = sub_index + 1
          /\ UNCHANGED pc
       \/ /\ \E raised \in BOOLEAN :
                \/ raised
                \/ Len(Slice0(bold_rms[sub_index + 1], num_timepoints)) # num_timepoints
          /\ pc' = "rms_error"
          /\ UNCHANGED <<rms_all, sub_index>>
    /\ UNCHANGED <<all_subs, dims_all, num_timepoints>>
    /\ UNCHANGED <<dispVars, aggVars, montageVars, rmsVars, subjVars>>

RmsDone ==
    /\ pc = "rms_loop"
    /\ sub_index >= num_subjects
    /\ pc' = "rms_done"
    /\ UNCHANGED <<dimsVars, num_timepoints>>
    /\ UNCHANGED <<dispVars, aggVars, montageVars, rmsVars, subjVars>>
\* f <= g for fractions with positive denominators
FLeq(f, g) == f[1] * g[2] <= g[1] * f[2]

\* a.max() of a 1-D array of fractions
RECURSIVE FMax(_)
FMax(a) ==
    IF Len(a) = 1 THEN a[1]
    ELSE LET m == FMax(Tail(a)) IN IF FLeq(m, a[1]) THEN a[1] ELSE m

\* a.mean(axis=1) of a 2-D array
MeanAxis1(a) == [s \in 1..Len(a) |-> Frac(SumSeq(a[s]), Len(a[s]))]

\* idx[-1] would be the last of the indices
FirstOf_Last(idx) == idx[Len(idx)]

\* idx[0]
FirstOf(idx) == idx[1]

\* np.nonzero(mean_rms_all==mean_rms_all.max())[0][0]
WorstSubject(m) ==
    FirstOf(NonZero([s \in 1..Len(m) |-> m[s] = FMax(m)], Len(m)))

\* mean_rms_all = rms_all.mean(axis=1); worst_subject = ...
FindWorst ==
    /\ pc = "rms_done"
    /\ mean_rms_all' = MeanAxis1(rms_all)
    /\ worst_subject' = WorstSubject(MeanAxis1(rms_all))
    /\ pc' = "worst_found"
    /\ UNCHANGED <<bold_rms, realign_all, num_timepoints>>
    /\ UNCHANGED <<dispVars, dimsVars, aggVars, montageVars, rmsVars>>

\* the motion realign.estimate finds for a run
McTransforms ==
    {Identity4, Affine(Eye3, <<1, 0, 0>>)}

\* realign_all = []; mean_displacement_all = np.zeros(...); xc = ...
McStart ==
    /\ pc = "worst_found"
    /\ realign_all' = <<>>
    /\ mean_displacement_all' =
          [s \in 1..num_subjects |-> [j \in 1..num_timepoints |-> ZeroVal]]
    /\ xc' = <<0, 0, 0>>
    /\ sub_index' = 0
    /\ pc' = "mc_loop"
    /\ UNCHANGED <<ref_affine, transforms, R, index, mean_displacement>>
    /\ UNCHANGED <<all_subs, dims_all, rms_all, num_timepoints>>
    /\ UNCHANGED <<saved_all, csv, md_diff, md_diff_rms, bad_sub_inds>>
    /\ UNCHANGED <<bold_rms, mean_rms_all, worst_subject>>
    /\ UNCHANGED <<montageVars, rmsVars>>

\* the row the inner loop leaves for a subject: the cells of
\* transforms[0:num_timepoints] are computed, the others keep their value
DisplacementRow(row, ref, ts, r, c, n) ==
    [j \in 1..Len(row) |->
        IF j <= Len(Slice0(ts, n)) THEN Displacement(ref, ts[j], r, c) ELSE row[j]]

\* one pass of the motion-correction loop for subject sub_index.
\* nib.load, FmriRealign4d and realign.estimate may raise before anything is
\* stored; realign.resample, nib.Nifti1Image and nib.save may raise after the
\* subject's row and realign_all have been updated.
McStep ==
    /\ pc = "mc_loop"
    /\ sub_index < num_subjects
    /\ \/ /\ pc' = "mc_error"
          /\ UNCHANGED <<ref_affine, transforms, mean_displacement_all, realign_all,
                         sub_index>>
       \/ \E T \in McTransforms :
            /\ ref_affine' = Scale3Ref
            /\ transforms' = [i \in 1..all_subs[sub_index + 1][4] |-> T]
            /\ mean_displacement_all' =
                  [mean_displacement_all EXCEPT ![sub_index + 1] =
                      DisplacementRow(mean_displacement_all[sub_index + 1], Scale3Ref,
                                      [i \in 1..all_subs[sub_index + 1][4] |-> T],
                                      R, xc, num_timepoints)]
            /\ realign_all' = Append(realign_all, sub_index)
            /\ \/ /\ pc' = "mc_error"
                  /\ UNCHANGED sub_index
               \/ /\ sub_index' = sub_index + 1
                  /\ UNCHANGED pc
    /\ UNCHANGED <<R, xc, index, mean_displacement>>
    /\ UNCHANGED <<all_subs, dims_all, rms_all, num_timepoints>>
    /\ UNCHANGED <<saved_all, csv, md_diff, md_diff_rms, bad_sub_inds>>
    /\ UNCHANGED <<bold_rms, mean_rms_all, worst_subject>>
    /\ UNCHANGED <<montageVars, rmsVars>>

\* np.savetxt indented into the loop body would write the file during the loop
McSave_InsideLoop ==
    /\ pc = "mc_loop"
    /\ saved_all' = mean_displacement_all
    /\ csv' = [s \in 1..Len(mean_displacement_all) |-> mean_displacement_all[s]]
    /\ pc' = "mc_saved"
    /\ UNCHANGED <<mean_displacement_all, md_diff, md_diff_rms, bad_sub_inds>>
    /\ UNCHANGED <<num_timepoints, dispVars, dimsVars, montageVars, rmsVars, subjVars>>

\* np.savetxt('mean_displacement_all.csv', mean_displacement_all), after the
\* loop; a line of the file holds the cells of a row (the text of a cell is
\* modelled by FormatE in the table cells)
McSave ==
    /\ pc = "mc_loop"
    /\ sub_index >= num_subjects
    /\ saved_all' = mean_displacement_all
    /\ csv' = [s \in 1..Len(mean_displacement_all) |-> mean_displacement_all[s]]
    /\ pc' = "mc_saved"
    /\ UNCHANGED <<mean_displacement_all, md_diff, md_diff_rms, bad_sub_inds>>
    /\ UNCHANGED <<num_timepoints, dispVars, dimsVars, montageVars, rmsVars, subjVars>>

NextSubjects ==
    \/ DimsStart \/ DimsStep \/ DimsDone \/ SetNumTimepoints \/ RmsAllStart
    \/ RmsStep \/ RmsDone \/ FindWorst \/ McStart \/ McStep \/ McSave

SpecSubjects == InitSubjects /\ [][NextSubjects]_vars
\* the RMS loop has started (and, in the later cells, has run to its end)
InRmsLoop == pc \in {"rms_loop", "rms_error"}
AfterRmsLoop == pc \in {"rms_done", "worst_found", "mc_loop", "mc_error", "mc_saved"}

\* rows of rms_all written so far: all of them once the loop is over
RowsWritten == IF InRmsLoop THEN sub_index ELSE num_subjects

C13_Rows ==
    (InRmsLoop \/ AfterRmsLoop) =>
        /\ Len(rms_all) = num_subjects
        /\ \A s \in 1..num_subjects :
              /\ all_subs[s][4] >= num_timepoints
              /\ Len(Slice0(bold_rms[s], num_timepoints)) = num_timepoints
              /\ Len(rms_all[s]) = num_timepoints
              /\ s <= RowsWritten =>
                    \A j \in 1..num_timepoints : rms_all[s][j] = bold_rms[s][j]
              /\ s > RowsWritten => rms_all[s] = Zeros(num_timepoints)

\* a step of the loop writes the row of the current subject and no other,
\* and moves on to the next subject; no other step writes a row
C13_OneRowPerStep ==
    (InRmsLoop \/ AfterRmsLoop) =>
        \/ rms_all' = rms_all
        \/ /\ sub_index' = sub_index + 1
           /\ rms_all[sub_index + 1] = Zeros(num_timepoints)
           /\ \A s \in 1..num_subjects :
                 s # sub_index + 1 => rms_all'[s] = rms_all[s]

\* C13: in the all-subjects RMS loop every run has at least num_timepoints
\* frames, so the slice [0:num_timepoints] has exactly num_timepoints entries;
\* row s holds the RMS of frames 0..num_timepoints-1 of subject s in order
\* (frames beyond are dropped from the end), rows not yet reached hold zeros,
\* and every row is written exactly once, all of them by the end of the loop.
C13_LeadingFrames == []C13_Rows /\ [][C13_OneRowPerStep]_vars

C13_Witness ==
    /\ pc = "rms_done"
    /\ num_subjects = 2
    /\ num_timepoints = 1
    /\ bold_rms[1] = <<1, 2>>
    /\ rms_all[1] = <<1>>
    /\ rms_all[2] = bold_rms[2]
\* the mean of row s of rms_all is at most (less than) the mean of row w
RowMeanLeq(s, w) ==
    SumSeq(rms_all[s]) * Len(rms_all[w]) <= SumSeq(rms_all[w]) * Len(rms_all[s])
RowMeanLess(s, w) ==
    SumSeq(rms_all[s]) * Len(rms_all[w]) < SumSeq(rms_all[w]) * Len(rms_all[s])

WorstFound == pc \in {"worst_found", "mc_loop", "mc_error", "mc_saved"}

\* C15: worst_subject is a valid (0-based) subject index, no row of rms_all
\* has a larger mean than its row, and every row before it has a smaller
\* mean, so among tied subjects it is the smallest index.
C15_WorstSubject ==
    WorstFound =>
        /\ worst_subject \in 0..(num_subjects - 1)
        /\ \A s \in 1..num_subjects : RowMeanLeq(s, worst_subject + 1)
        /\ \A s \in 1..worst_subject : RowMeanLess(s, worst_subject + 1)
        /\ mean_rms_all[worst_subject + 1] =
              Frac(SumSeq(rms_all[worst_subject + 1]), num_timepoints)

\* two subjects tie for the largest mean, 3/2, and the first is chosen
C15_Witness ==
    /\ pc = "worst_found"
    /\ rms_all = << <<1, 2>>, <<2, 1>> >>
    /\ mean_rms_all = << <<3, 2>>, <<3, 2>> >>
    /\ worst_subject = 0
Failed == pc \in {"rms_error", "mc_error"}

ZeroRow == [j \in 1..num_timepoints |-> ZeroVal]

\* the file mean_displacement_all.csv does not exist
NoTable == csv = <<>>

\* C14 as stated: when subject k (0-based, = sub_index) fails in either loop,
\* the rows of subjects k and later keep their initial zeros and the table
\* file is not written.
C14_RowsFromFailedSubjectKeepZeros ==
    /\ pc = "rms_error" =>
          \A s \in (sub_index + 1)..num_subjects : rms_all[s] = Zeros(num_timepoints)
    /\ pc = "mc_error" =>
          \A s \in (sub_index + 1)..num_subjects : mean_displacement_all[s] = ZeroRow
    /\ Failed => NoTable

\* the row the inner loop computes for subject s from the transforms in hand
ComputedRow ==
    [j \in 1..num_timepoints |-> Displacement(ref_affine, transforms[j], R, xc)]

C14_State ==
    /\ pc = "rms_error" =>
          /\ \A s \in (sub_index + 1)..num_subjects :
                rms_all[s] = Zeros(num_timepoints)
          /\ \A s \in 1..sub_index : rms_all[s] # Zeros(num_timepoints)
          /\ mean_rms_all = <<>> /\ mean_displacement_all = <<>>
    /\ pc = "mc_error" =>
          /\ \A s \in (sub_index + 2)..num_subjects :
                mean_displacement_all[s] = ZeroRow
          /\ \/ /\ Len(realign_all) = sub_index
                /\ mean_displacement_all[sub_index + 1] = ZeroRow
             \/ /\ Len(realign_all) = sub_index + 1
                /\ mean_displacement_all[sub_index + 1] = ComputedRow
    /\ Failed => NoTable
    /\ ~NoTable =>
          /\ pc = "mc_saved"
          /\ sub_index = num_subjects
          /\ Len(realign_all) = num_subjects
          /\ csv = mean_displacement_all

\* C14, amended: a failure at subject k ends the loop there: nothing runs
\* afterwards (no later subject, no retry), the rows of the subjects after k
\* keep their zeros, the table file is written only after every subject has
\* completed; row k keeps its zeros in the RMS loop, and in the
\* motion-correction loop unless the failure comes after the subject's
\* displacement loop, when row k already holds the subject's displacements.
C14_FailLoud == []C14_State /\ [][Failed => UNCHANGED vars]_vars

\* the second subject fails after its displacement loop: its row is filled
C14_Witness ==
    /\ pc = "mc_error"
    /\ sub_index = 1
    /\ num_subjects = 2
    /\ Len(realign_all) = 2
    /\ mean_displacement_all[1] # ZeroRow
    /\ mean_displacement_all[2] # ZeroRow
    /\ NoTable

====
